---- MODULE Spec2Model ----
(***************************************************************************)
(* The works service of design-refresh: the handlers of                   *)
(* src/api/src/services/works.ts (the second variant of the module, from  *)
(* line 304 on: putWork, getWork, getWorks, makePrivilegedStateChange)    *)
(* over the key-value store REFRESH_KV and its four denormalised indices. *)
(* Each handler runs to completion as one atomic action; SpecRace splits   *)
(* the index writes of putWork into the store reads and writes they are.  *)
(***************************************************************************)
EXTENDS Integers, Sequences, FiniteSets, TLC

VARIABLES
  REFRESH_KV,   \* the store: one field per key prefix of constants/kv
  last,         \* the last request handled and its response
  requests,     \* number of requests handled so far
  inflight      \* SpecRace: the placeWork calls under way, one per request

vars == <<REFRESH_KV, last, requests, inflight>>

(***************************************************************************)
(* Bounds of the model.                                                    *)
(***************************************************************************)
MaxRequests == 2
MaxBatch == 1
MaxModeration == 3
MaxModerationBatch == 2

(***************************************************************************)
(* Identities. EDITORS is data/constants/setup (imported at works.ts:308). *)
(***************************************************************************)
Undefined == "undefined"
NoIdentity == Undefined
EDITORS == {"e1", "e2"}
Artists == {"a1", "a2"}
ArtistIds == EDITORS \cup Artists
Callers == {NoIdentity, "e1", "a1", "a2"}

ACTIVE_YEAR == 2022
LAST_ACTIVE_WEEK == 2
Weeks == 1..LAST_ACTIVE_WEEK
Timestamps == {1}
DiscordIds == {"d1"}
ForgedDiscordId == "dX"

(***************************************************************************)
(* Partial maps (JSON objects keyed by string).                            *)
(***************************************************************************)
EmptyMap == [x \in {} |-> Undefined]
Put(m, k, v) == [x \in (DOMAIN m) \cup {k} |-> IF x = k THEN v ELSE m[x]]
Get(m, k, d) == IF k \in DOMAIN m THEN m[k] ELSE d
Values(m) == {m[k] : k \in DOMAIN m}

(***************************************************************************)
(* Items and their thumbnails (URLs are tuples: <<kind, name>>).           *)
(***************************************************************************)
NoUrl == <<Undefined>>
CdnImage == <<"cdn", "a.png">>
ExternalLink == <<"ext", "page">>
AudioFile == <<"cdn", "b.mp3">>
PlaceholderThumbnail == <<"placeholders", "audio_submission.png">>

UrlItem(url) ==
  [url |-> url, meta |-> NoUrl, smallThumbnail |-> NoUrl, hiDpiThumbnail |-> NoUrl]

RawItemLists == { <<UrlItem(CdnImage)>> }

Urls(items) == [i \in DOMAIN items |-> items[i].url]

\* utils/io determineShortId: a deterministic, injective short id of
\* (artistId, ordered item URLs).
determineShortId(artistId, items) == <<artistId, Urls(items)>>

NoopId == <<"noop">>
UndefinedId == <<Undefined>>
TooShortId == <<"x">>

(***************************************************************************)
(* The Work record (data/core/Work).  EmptyWork is JSON.parse("{}"): every *)
(* field absent.                                                           *)
(***************************************************************************)
EmptyWork ==
  [id |-> UndefinedId, year |-> 0, weekNumbers |-> {}, artistId |-> Undefined,
   items |-> <<>>, thumbnailUrl |-> NoUrl, smallThumbnailUrl |-> NoUrl,
   isApproved |-> FALSE, isSoftDeleted |-> FALSE, discordId |-> Undefined,
   submittedTimestamp |-> 0]

HasId(work) == work.id # UndefinedId

(***************************************************************************)
(* The store.  WORKS_WITH_ID_INDEX: id -> Work; WORKS_WITH_ARTIST_INDEX:   *)
(* artistId -> (id -> Work); WORKS_WITH_WEEK_INDEX: <<year, week>> ->      *)
(* (id -> Work); WORKS_WITHOUT_INDEX: the array of all works.              *)
(***************************************************************************)
EmptyStore ==
  [WORKS_WITH_ID_INDEX |-> EmptyMap, WORKS_WITH_ARTIST_INDEX |-> EmptyMap,
   WORKS_WITH_WEEK_INDEX |-> EmptyMap, WORKS_WITHOUT_INDEX |-> <<>>]

\* The list with `work` replacing the entry of the same id, or appended.
ReplaceOrAppend(list, work) ==
  IF \E i \in DOMAIN list : list[i].id = work.id
    THEN [i \in DOMAIN list |-> IF list[i].id = work.id THEN work ELSE list[i]]
    ELSE Append(list, work)

RECURSIVE PlaceWeeks(_, _, _)
PlaceWeeks(index, work, weeks) ==
  IF weeks = {} THEN index
  ELSE LET w == CHOOSE x \in weeks : \A y \in weeks : x <= y
           key == <<work.year, w>>
       IN PlaceWeeks(Put(index, key, Put(Get(index, key, EmptyMap), work.id, work)),
                     work, weeks \ {w})

\* utils/kv placeWork(kv, work, isNewPost, <id index off>, <artist and week
\* indices off>, <list off>): each sub-index is a full read-modify-write of
\* its own key; nothing is removed from a key the work no longer belongs to.
\* The three trailing flags switch a sub-write off, as the call of
\* works.ts:767-771 documents ("write to ID, and to weeks and artist
\* aggregates, but not the main list").
placeWork(kv, work, isNewPost, skipIdIndex, skipArtistAndWeekIndices, skipListIndex) ==
  LET byId == IF skipIdIndex THEN kv.WORKS_WITH_ID_INDEX
              ELSE Put(kv.WORKS_WITH_ID_INDEX, work.id, work)
      byArtist == IF skipArtistAndWeekIndices THEN kv.WORKS_WITH_ARTIST_INDEX
                  ELSE Put(kv.WORKS_WITH_ARTIST_INDEX, work.artistId,
                           Put(Get(kv.WORKS_WITH_ARTIST_INDEX, work.artistId, EmptyMap),
                               work.id, work))
      byWeek == IF skipArtistAndWeekIndices THEN kv.WORKS_WITH_WEEK_INDEX
                ELSE PlaceWeeks(kv.WORKS_WITH_WEEK_INDEX, work, work.weekNumbers)
      list == IF skipListIndex THEN kv.WORKS_WITHOUT_INDEX
              ELSE ReplaceOrAppend(kv.WORKS_WITHOUT_INDEX, work)
  IN [WORKS_WITH_ID_INDEX |-> byId, WORKS_WITH_ARTIST_INDEX |-> byArtist,
      WORKS_WITH_WEEK_INDEX |-> byWeek, WORKS_WITHOUT_INDEX |-> list]

\* The store keys placeWork writes, in the order of its sub-writes.
ListKey == <<"list">>
RECURSIVE WeekKeys(_, _)
WeekKeys(year, weeks) ==
  IF weeks = {} THEN <<>>
  ELSE LET w == CHOOSE x \in weeks : \A y \in weeks : x <= y
       IN <<<<"week", year, w>>>> \o WeekKeys(year, weeks \ {w})

placeWorkKeys(work, skipIdIndex, skipArtistAndWeekIndices, skipListIndex) ==
  (IF skipIdIndex THEN <<>> ELSE <<<<"id", work.id>>>>)
  \o (IF skipArtistAndWeekIndices THEN <<>>
      ELSE <<<<"artist", work.artistId>>>> \o WeekKeys(work.year, work.weekNumbers))
  \o (IF skipListIndex THEN <<>> ELSE <<ListKey>>)

\* placeWork on a record with no id, artistId or weekNumbers is a fault.
placeWorkFaults(work) == ~HasId(work)

\* What that call has written when it faults: nothing, or the by-ID entry,
\* the first sub-write, under the key the absent id is formatted to
\* (`${WORKS_WITH_ID_INDEX}/undefined`), the fault coming with the
\* aggregates (no artistId, no weekNumbers to go through).
IdlessOutcomes == {"nothing", "byId"}
UndefinedKey == <<"undefined", "key">>
placeWorkIdless(kv, work, outcome) ==
  IF outcome = "byId"
    THEN [kv EXCEPT !.WORKS_WITH_ID_INDEX = Put(@, UndefinedKey, work)]
    ELSE kv
placeWorkIdlessKeys(outcome) ==
  IF outcome = "byId" THEN <<<<"id", UndefinedKey>>>> ELSE <<>>

(***************************************************************************)
(* putWork (works.ts:463-624).                                             *)
(***************************************************************************)
isStaffOf(identifier) == IF identifier # NoIdentity THEN identifier \in EDITORS ELSE FALSE

\* WORK_SCHEMA.validate(input) has no error (for the modelled fields).
WORK_SCHEMA(input) ==
  /\ input.id # TooShortId /\ input.id # UndefinedId
  /\ input.year >= 2022 /\ input.year <= 2077
  /\ input.weekNumbers # {} /\ Cardinality(input.weekNumbers) <= 6
  /\ \A w \in input.weekNumbers : w >= 1 /\ w <= LAST_ACTIVE_WEEK
  /\ input.artistId # Undefined
  /\ Len(input.items) >= 1
  /\ input.submittedTimestamp # 0

\* Mutants of ResetPrivileged: a reset that leaves one field as submitted.
ResetPrivileged_keepsApproved(input) ==
  [input EXCEPT !.discordId = Undefined, !.isSoftDeleted = FALSE]

ResetPrivileged_keepsDiscordId(input) ==
  [input EXCEPT !.isApproved = FALSE, !.isSoftDeleted = FALSE]

\* Lines 481-485.
ResetPrivileged(input) ==
  [input EXCEPT !.isApproved = FALSE, !.discordId = Undefined, !.isSoftDeleted = FALSE]

\* Mutant of OwnershipRejects: "or" for "and" (the condition of works.ts:197).
OwnershipRejects_or(identifier, input) ==
  ~isStaffOf(identifier) \/ input.artistId # identifier

\* Line 490.
OwnershipRejects(identifier, input) ==
  ~isStaffOf(identifier) /\ input.artistId # identifier

\* Lines 500-510: the stored record, or EmptyWork when there is none or it
\* carries the "noop" id.
\* `backendWork` is not null (lines 504, 514, 516, 547): the key held a
\* record, with or without an id.
Found(backendWork) == backendWork # EmptyWork

BackendWork(kv, input) ==
  LET raw == Get(kv.WORKS_WITH_ID_INDEX, input.id, EmptyWork)
  IN IF raw.id = NoopId THEN EmptyWork ELSE raw

\* Mutant of RetainedArtistId: the submitted artistId always wins.
RetainedArtistId_submitted(input, backendWork) == input.artistId

\* Lines 535-539.
RetainedArtistId(input, backendWork) ==
  IF input.artistId \in EDITORS THEN backendWork.artistId ELSE input.artistId

\* Mutant of KeepOldData: line 542 is missing, the payload's timestamp stays.
KeepOldData_payloadTimestamp(input, backendWork) ==
  [input EXCEPT !.artistId = RetainedArtistId(input, backendWork),
                !.discordId = backendWork.discordId]

\* Mutant of KeepOldData: the stored soft-deletion is kept as well.
KeepOldData_keepsDeleted(input, backendWork) ==
  [input EXCEPT !.artistId = RetainedArtistId(input, backendWork),
                !.discordId = backendWork.discordId,
                !.submittedTimestamp = backendWork.submittedTimestamp,
                !.isSoftDeleted = backendWork.isSoftDeleted]

\* Lines 532-543.
KeepOldData(input, backendWork) ==
  [input EXCEPT !.artistId = RetainedArtistId(input, backendWork),
                !.discordId = backendWork.discordId,
                !.submittedTimestamp = backendWork.submittedTimestamp]

IsCdn(url) == url[1] = "cdn"
IsMp3(url) == url = AudioFile

\* Lines 548-586, one item; `scraped` is whether scrapeThumbnail finds a
\* meta image.
ItemThumbnails(item, scraped) ==
  IF IsCdn(item.url) /\ ~IsMp3(item.url)
    THEN [item EXCEPT !.smallThumbnail = <<"small", item.url[2]>>,
                      !.hiDpiThumbnail = <<"hidpi", item.url[2]>>]
  ELSE IF ~IsMp3(item.url)
    THEN IF scraped
           THEN [item EXCEPT !.meta = <<"meta", item.url[2]>>,
                             !.smallThumbnail = <<"small", item.url[2]>>,
                             !.hiDpiThumbnail = <<"hidpi", item.url[2]>>]
           ELSE item
  ELSE [item EXCEPT !.smallThumbnail = PlaceholderThumbnail,
                    !.hiDpiThumbnail = PlaceholderThumbnail]

\* Lines 547-587.
GenerateThumbnails(input, backendWork, scraped) ==
  IF ~Found(backendWork) \/ input.items # backendWork.items
    THEN [input EXCEPT !.items = [i \in DOMAIN input.items |->
                                    ItemThumbnails(input.items[i], scraped)]]
    ELSE input

IsPlaceholder(url) == url[1] = "placeholders"

\* Lines 591-610.
SelectThumbnail(input) ==
  IF input.thumbnailUrl # NoUrl THEN input
  ELSE LET smallThumbnails == [i \in DOMAIN input.items |-> input.items[i].smallThumbnail]
           thumbnails == [i \in DOMAIN input.items |-> input.items[i].hiDpiThumbnail]
           Real(url) == url # NoUrl /\ ~IsPlaceholder(url)
           noPlaceholders == SelectSeq(thumbnails, Real)
       IN IF Len(thumbnails) > 0
            THEN IF Len(thumbnails) > 1 /\ Len(noPlaceholders) > 0
                   THEN [input EXCEPT !.thumbnailUrl = noPlaceholders[1],
                                      !.smallThumbnailUrl = noPlaceholders[1]]
                   ELSE [input EXCEPT !.thumbnailUrl = thumbnails[1],
                                      !.smallThumbnailUrl = smallThumbnails[1]]
            ELSE input

\* Mutant of Announce: a failed announcement clears the discordId.
Announce_clearsOnFailure(input, posted) == [input EXCEPT !.discordId = posted]

\* Lines 614-619: `posted` is what postOrEditDiscordWork returned
\* (Undefined for null).
Announce(input, posted) ==
  IF posted # Undefined THEN [input EXCEPT !.discordId = posted] ELSE input

Response(status, error, kv, work) ==
  [status |-> status, error |-> error, kv |-> kv, work |-> work]

\* Lines 612-623: announce, persist, answer the record persisted.
AnnounceAndPlace(kv, input, posted) ==
  LET hadDiscordIdAlready == input.discordId # Undefined
      final == Announce(input, posted)
  IN Response("OK", "None",
              placeWork(kv, final, ~hadDiscordIdAlready, FALSE, FALSE, FALSE), final)

\* Lines 545-610.
Thumbnails(input, backendWork, scraped) ==
  SelectThumbnail(GenerateThumbnails(input, backendWork, scraped))

\* Mutant of CreateOrEdit: the duplicate is answered BadRequest after the
\* record has been written over the existing one.
CreateOrEdit_overwritesDuplicate(kv, input, backendWork, posted, scraped) ==
  IF Found(backendWork) /\ backendWork.id # input.id
    THEN Response("Forbidden", "IdMismatch", kv, EmptyWork)
  ELSE IF ~Found(backendWork)
    THEN LET newId == determineShortId(input.artistId, input.items)
             placed == AnnounceAndPlace(kv, Thumbnails([input EXCEPT !.id = newId],
                                                       backendWork, scraped), posted)
         IN IF newId \in DOMAIN kv.WORKS_WITH_ID_INDEX
              THEN Response("BadRequest", "Duplicate", placed.kv, EmptyWork)
              ELSE placed
  ELSE AnnounceAndPlace(kv, Thumbnails(KeepOldData(input, backendWork),
                                       backendWork, scraped), posted)

\* Mutant of CreateOrEdit: line 531 (input.id = newId) is missing, the new
\* record keeps the id the request presented.
CreateOrEdit_keepsPresentedId(kv, input, backendWork, posted, scraped) ==
  IF Found(backendWork) /\ backendWork.id # input.id
    THEN Response("Forbidden", "IdMismatch", kv, EmptyWork)
  ELSE IF ~Found(backendWork)
    THEN LET newId == determineShortId(input.artistId, input.items)
         IN IF newId \in DOMAIN kv.WORKS_WITH_ID_INDEX
              THEN Response("BadRequest", "Duplicate", kv, EmptyWork)
              ELSE AnnounceAndPlace(kv, Thumbnails(input, backendWork, scraped), posted)
  ELSE AnnounceAndPlace(kv, Thumbnails(KeepOldData(input, backendWork),
                                       backendWork, scraped), posted)

\* Mutant of CreateOrEdit: the existence probe of line 523 reads under the
\* presented id, not under the allocated one.
CreateOrEdit_probesPresentedId(kv, input, backendWork, posted, scraped) ==
  IF Found(backendWork) /\ backendWork.id # input.id
    THEN Response("Forbidden", "IdMismatch", kv, EmptyWork)
  ELSE IF ~Found(backendWork)
    THEN LET newId == determineShortId(input.artistId, input.items)
         IN IF input.id \in DOMAIN kv.WORKS_WITH_ID_INDEX
              THEN Response("BadRequest", "Duplicate", kv, EmptyWork)
              ELSE AnnounceAndPlace(kv, Thumbnails([input EXCEPT !.id = newId],
                                                   backendWork, scraped), posted)
  ELSE AnnounceAndPlace(kv, Thumbnails(KeepOldData(input, backendWork),
                                       backendWork, scraped), posted)

\* Mutant of CreateOrEdit: the collision is thrown, as at works.ts:146-148.
CreateOrEdit_throwsOnCollision(kv, input, backendWork, posted, scraped) ==
  IF Found(backendWork) /\ backendWork.id # input.id
    THEN Response("Forbidden", "IdMismatch", kv, EmptyWork)
  ELSE IF ~Found(backendWork)
    THEN LET newId == determineShortId(input.artistId, input.items)
         IN IF newId \in DOMAIN kv.WORKS_WITH_ID_INDEX
              THEN Response("Fault", "Collision", kv, EmptyWork)
              ELSE AnnounceAndPlace(kv, Thumbnails([input EXCEPT !.id = newId],
                                                   backendWork, scraped), posted)
  ELSE AnnounceAndPlace(kv, Thumbnails(KeepOldData(input, backendWork),
                                       backendWork, scraped), posted)

\* Lines 512-623, given the stored record (EmptyWork: none).
CreateOrEdit(kv, input, backendWork, posted, scraped) ==
  IF Found(backendWork) /\ backendWork.id # input.id
    THEN Response("Forbidden", "IdMismatch", kv, EmptyWork)
  ELSE IF ~Found(backendWork)
    THEN LET newId == determineShortId(input.artistId, input.items)
         IN IF newId \in DOMAIN kv.WORKS_WITH_ID_INDEX
              THEN Response("BadRequest", "Duplicate", kv, EmptyWork)
              ELSE AnnounceAndPlace(kv, Thumbnails([input EXCEPT !.id = newId],
                                                   backendWork, scraped), posted)
  ELSE AnnounceAndPlace(kv, Thumbnails(KeepOldData(input, backendWork),
                                       backendWork, scraped), posted)

\* Mutant of MissingIdentity: the check is gone.
MissingIdentity_never(identifier) == FALSE

\* Line 468.
MissingIdentity(identifier) == identifier = NoIdentity

putWork(kv, identifier, payload, posted, scraped) ==
  IF MissingIdentity(identifier) THEN Response("Forbidden", "NoIdentity", kv, EmptyWork)
  ELSE IF ~WORK_SCHEMA(payload) THEN Response("BadRequest", "Schema", kv, EmptyWork)
  ELSE LET input == ResetPrivileged(payload)
       IN IF OwnershipRejects(identifier, input)
            THEN Response("BadRequest", "Ownership", kv, EmptyWork)
            ELSE CreateOrEdit(kv, input, BackendWork(kv, input), posted, scraped)

(***************************************************************************)
(* getWorks and getWork (works.ts:337-447).                                *)
(***************************************************************************)
\* Mutant of workRetrievalPredicate: asking for unapproved work opens the
\* outer test to any caller.
workRetrievalPredicate_anyoneSeeks(isStaff, isSeekingUnapproved, work) ==
  IF work.isApproved \/ isStaff \/ isSeekingUnapproved
    THEN IF ~isStaff \/ ~isSeekingUnapproved \/ ~work.isApproved
           THEN ~work.isSoftDeleted
           ELSE FALSE
    ELSE FALSE

\* Lines 337-351.
workRetrievalPredicate(isStaff, isSeekingUnapproved, work) ==
  IF work.isApproved \/ isStaff
    THEN IF ~isStaff \/ ~isSeekingUnapproved \/ ~work.isApproved
           THEN ~work.isSoftDeleted
           ELSE FALSE
    ELSE FALSE

\* results[work.id] = work for each work of the sequence, in order.
RECURSIVE KeyById(_, _)
KeyById(results, works) ==
  IF works = <<>> THEN results
  ELSE KeyById(Put(results, Head(works).id, Head(works)), Tail(works))

\* Object.values of an index map, as a sequence without repetition.
RECURSIVE ObjectValues(_)
ObjectValues(m) ==
  IF DOMAIN m = {} THEN <<>>
  ELSE LET k == CHOOSE x \in DOMAIN m : TRUE
       IN <<m[k]>> \o ObjectValues([x \in (DOMAIN m) \ {k} |-> m[x]])

\* Lines 391-416: the filter is the artist when given, else the week, else
\* none (Undefined and 0 stand for an absent parameter).
SelectedWorks(kv, year, week, artistId) ==
  IF artistId # Undefined
    THEN ObjectValues(Get(kv.WORKS_WITH_ARTIST_INDEX, artistId, EmptyMap))
  ELSE IF week # 0
    THEN ObjectValues(Get(kv.WORKS_WITH_WEEK_INDEX, <<year, week>>, EmptyMap))
  ELSE kv.WORKS_WITHOUT_INDEX

getWorks(kv, identifier, year, week, artistId, isSeekingUnapproved) ==
  LET isStaff == isStaffOf(identifier)
      Included(work) == workRetrievalPredicate(isStaff, isSeekingUnapproved, work)
  IN KeyById(EmptyMap, SelectSeq(SelectedWorks(kv, year, week, artistId), Included))

\* Mutant of getWork: a record that is not approved is answered NotFound.
getWork_approvedOnly(kv, id) ==
  IF id = UndefinedId THEN Response("NotFound", "None", kv, EmptyWork)
  ELSE LET work == Get(kv.WORKS_WITH_ID_INDEX, id, EmptyWork)
       IN IF ~HasId(work) \/ work.isSoftDeleted \/ ~work.isApproved
            THEN Response("NotFound", "None", kv, EmptyWork)
            ELSE Response("OK", "None", kv, work)

\* Mutant of getWork: the soft-delete test of line 442 is missing.
getWork_returnsDeleted(kv, id) ==
  IF id = UndefinedId THEN Response("NotFound", "None", kv, EmptyWork)
  ELSE LET work == Get(kv.WORKS_WITH_ID_INDEX, id, EmptyWork)
       IN IF ~HasId(work)
            THEN Response("NotFound", "None", kv, EmptyWork)
            ELSE Response("OK", "None", kv, work)

\* Lines 430-447: NotFound, or the stored record keyed by its id.
getWork(kv, id) ==
  IF id = UndefinedId THEN Response("NotFound", "None", kv, EmptyWork)
  ELSE LET work == Get(kv.WORKS_WITH_ID_INDEX, id, EmptyWork)
       IN IF ~HasId(work) \/ work.isSoftDeleted
            THEN Response("NotFound", "None", kv, EmptyWork)
            ELSE Response("OK", "None", kv, work)

(***************************************************************************)
(* makePrivilegedStateChange (works.ts:726-797).                           *)
(***************************************************************************)
PrivilegedStateChange == {"APPROVE", "UN_APPROVE", "DELETE"}

\* Mutant of Mutate: DELETE withdraws the approval as well.
Mutate_deleteUnapproves(state, work) ==
  CASE state = "APPROVE" -> [work EXCEPT !.isApproved = TRUE]
    [] state = "DELETE" -> [work EXCEPT !.isSoftDeleted = TRUE, !.isApproved = FALSE]
    [] state = "UN_APPROVE" -> [work EXCEPT !.isApproved = FALSE]

\* Lines 750-765.
Mutate(state, work) ==
  CASE state = "APPROVE" -> [work EXCEPT !.isApproved = TRUE]
    [] state = "DELETE" -> [work EXCEPT !.isSoftDeleted = TRUE]
    [] state = "UN_APPROVE" -> [work EXCEPT !.isApproved = FALSE]

\* Mutant of SkipListInBatch: the per-id write updates the list too.
SkipListInBatch_no == FALSE

\* Line 770: the last argument of the per-id placeWork call.
SkipListInBatch == TRUE

\* Mutant of SkipArtistAndWeekInBatch: the per-id write leaves the artist
\* and week aggregates alone.
SkipArtistAndWeekInBatch_yes == TRUE

\* Line 770: the last but one argument of the per-id placeWork call.
SkipArtistAndWeekInBatch == FALSE

\* Lines 767-771: the per-id write through placeWork, and the keys it writes.
PlaceMutated(kv, work) ==
  placeWork(kv, work, FALSE, FALSE, SkipArtistAndWeekInBatch, SkipListInBatch)
PlaceMutatedKeys(work) ==
  placeWorkKeys(work, FALSE, SkipArtistAndWeekInBatch, SkipListInBatch)

\* Lines 742-774: the ids in request order; each reads what the previous
\* ones wrote.  A fault ends the handler where it is raised.
RECURSIVE ProcessIds(_, _, _, _, _)
ProcessIds(kv, state, ids, works, outcome) ==
  IF ids = <<>>
    THEN [kv |-> kv, works |-> works, fault |-> FALSE, writes |-> <<>>, placed |-> <<>>]
  ELSE LET work == Mutate(state, Get(kv.WORKS_WITH_ID_INDEX, Head(ids), EmptyWork))
       IN IF placeWorkFaults(work)
            THEN [kv |-> placeWorkIdless(kv, work, outcome), works |-> works,
                  fault |-> TRUE, writes |-> placeWorkIdlessKeys(outcome),
                  placed |-> <<work>>]
            ELSE LET rest == ProcessIds(PlaceMutated(kv, work), state, Tail(ids),
                                        Append(works, work), outcome)
                 IN [rest EXCEPT !.writes = PlaceMutatedKeys(work) \o rest.writes,
                                 !.placed = <<work>> \o rest.placed]

\* Mutant of MergeById: the batch's works are appended to the list, ids are
\* not used as keys.
MergeById_appends(all, works) == all \o works

\* Lines 782-788: idToAllWorks, the list keyed by id and then the batch's
\* works over it, in insertion order.
RECURSIVE MergeById(_, _)
MergeById(all, works) ==
  IF works = <<>> THEN all
  ELSE MergeById(ReplaceOrAppend(all, Head(works)), Tail(works))

\* Mutant of InsertSorted: the merged works stay in insertion order.
InsertSorted_unsorted(sorted, work) == Append(sorted, work)

\* Lines 791-793: Array.prototype.sort (stable), newest first.
RECURSIVE InsertSorted(_, _)
InsertSorted(sorted, work) ==
  IF sorted = <<>> THEN <<work>>
  ELSE IF Head(sorted).submittedTimestamp >= work.submittedTimestamp
         THEN <<Head(sorted)>> \o InsertSorted(Tail(sorted), work)
         ELSE <<work>> \o sorted

RECURSIVE SortNewestFirst(_)
SortNewestFirst(works) ==
  IF works = <<>> THEN <<>>
  ELSE InsertSorted(SortNewestFirst(SubSeq(works, 1, Len(works) - 1)), works[Len(works)])

\* Mutant of WriteMergedList: the list is re-sorted without the batch's works.
WriteMergedList_unmerged(kv, works) ==
  [kv EXCEPT !.WORKS_WITHOUT_INDEX =
     SortNewestFirst(MergeById(<<>>, kv.WORKS_WITHOUT_INDEX))]

\* Lines 776-794.
WriteMergedList(kv, works) ==
  [kv EXCEPT !.WORKS_WITHOUT_INDEX =
     SortNewestFirst(MergeById(MergeById(<<>>, kv.WORKS_WITHOUT_INDEX), works))]

\* Mutant of makePrivilegedStateChange: any identified caller may moderate.
makePrivilegedStateChange_anyIdentified(kv, state, identifier, ids, outcome) ==
  IF MissingIdentity(identifier) THEN Response("Forbidden", "NotStaff", kv, EmptyWork)
  ELSE LET done == ProcessIds(kv, state, ids, <<>>, outcome)
       IN IF done.fault THEN Response("Fault", "MissingWork", done.kv, EmptyWork)
          ELSE Response("OK", "None", WriteMergedList(done.kv, done.works), EmptyWork)

\* Lines 726-797.
makePrivilegedStateChange(kv, state, identifier, ids, outcome) ==
  IF ~isStaffOf(identifier) THEN Response("Forbidden", "NotStaff", kv, EmptyWork)
  ELSE LET done == ProcessIds(kv, state, ids, <<>>, outcome)
       IN IF done.fault THEN Response("Fault", "MissingWork", done.kv, EmptyWork)
          ELSE Response("OK", "None", WriteMergedList(done.kv, done.works), EmptyWork)

(***************************************************************************)
(* Requests.                                                               *)
(***************************************************************************)
WeekSets == {{1}, {1, 2}}
PostResults == {Undefined} \cup DiscordIds

\* A request body of PUT /works.  `forged` payloads claim the privileged
\* fields (approved, soft-deleted, somebody's Discord post).
Payload(id, artistId, weekNumbers, items, forged, submittedTimestamp) ==
  [id |-> id, year |-> ACTIVE_YEAR, weekNumbers |-> weekNumbers, artistId |-> artistId,
   items |-> items, thumbnailUrl |-> NoUrl, smallThumbnailUrl |-> NoUrl,
   isApproved |-> forged, isSoftDeleted |-> forged,
   discordId |-> IF forged THEN ForgedDiscordId ELSE Undefined,
   submittedTimestamp |-> submittedTimestamp]

StoredIds == DOMAIN REFRESH_KV.WORKS_WITH_ID_INDEX
PresentedIds == StoredIds \cup {NoopId, TooShortId}
ItemChoices(itemLists, id) ==
  (itemLists \cup {Get(REFRESH_KV.WORKS_WITH_ID_INDEX, id, EmptyWork).items}) \ {<<>>}
ScrapeOutcomes(items) ==
  IF \E i \in DOMAIN items : ~IsCdn(items[i].url) THEN BOOLEAN ELSE {TRUE}

\* What `last` records of a request: who asked what, the response, and for
\* putWork the stored record it found (prev) and the record it answered.
NoRequest ==
  [op |-> "none", caller |-> NoIdentity, status |-> "none", error |-> "None",
   presented |-> UndefinedId, artistId |-> Undefined, forged |-> FALSE,
   posted |-> Undefined, prev |-> EmptyWork, work |-> EmptyWork,
   state |-> "none", ids |-> <<>>, week |-> 0, unapproved |-> FALSE,
   result |-> EmptyMap, urls |-> <<>>, timestamp |-> 0,
   writes |-> <<>>, placed |-> <<>>]

Init ==
  /\ REFRESH_KV = EmptyStore
  /\ last = NoRequest
  /\ requests = 0
  /\ inflight = <<>>

PutWorkOf(callers, artistIds, itemLists, forgeries, timestamps, postResults, max) ==
  /\ requests < max
  /\ \E identifier \in callers, id \in PresentedIds, artistId \in artistIds,
        weekNumbers \in WeekSets, forged \in forgeries, ts \in timestamps,
        posted \in postResults :
       \E items \in ItemChoices(itemLists, id) : \E scraped \in ScrapeOutcomes(items) :
         LET payload == Payload(id, artistId, weekNumbers, items, forged, ts)
         IN \E r \in {putWork(REFRESH_KV, identifier, payload, posted, scraped)} :
            /\ REFRESH_KV' = r.kv
            /\ last' = [NoRequest EXCEPT !.op = "putWork", !.caller = identifier,
                          !.status = r.status, !.error = r.error, !.presented = id,
                          !.artistId = artistId, !.forged = forged,
                          !.urls = Urls(items), !.timestamp = ts,
                          !.posted = IF r.status = "OK" THEN posted ELSE Undefined,
                          !.prev = IF r.status = "OK" THEN BackendWork(REFRESH_KV, payload)
                                   ELSE EmptyWork,
                          !.work = r.work]
  /\ requests' = requests + 1
  /\ UNCHANGED inflight

BatchIds(maxBatch) == UNION {[1..n -> StoredIds \cup {NoopId}] : n \in 1..maxBatch}

\* The store keys one call of makePrivilegedStateChange writes, in order:
\* the per-id writes of the loop, then the put of line 790.
StateChangeWrites(kv, state, identifier, ids, outcome) ==
  IF ~isStaffOf(identifier) THEN <<>>
  ELSE LET done == ProcessIds(kv, state, ids, <<>>, outcome)
       IN IF done.fault THEN done.writes ELSE Append(done.writes, ListKey)

\* The records one call of makePrivilegedStateChange hands to placeWork
\* (line 769), in order, the one placeWork faults on included.
StateChangePlaced(kv, state, identifier, ids, outcome) ==
  IF ~isStaffOf(identifier) THEN <<>> ELSE ProcessIds(kv, state, ids, <<>>, outcome).placed

\* postApprove and deleteWork (works.ts:806-825) are the two entries to
\* makePrivilegedStateChange; no handler passes UN_APPROVE.
StateChangeOf(state, callers, maxBatch, outcomes, max) ==
  /\ requests < max
  /\ \E identifier \in callers, ids \in BatchIds(maxBatch), outcome \in outcomes :
       \E r \in {makePrivilegedStateChange(REFRESH_KV, state, identifier, ids, outcome)} :
          /\ REFRESH_KV' = r.kv
          /\ last' = [NoRequest EXCEPT !.op = "stateChange", !.caller = identifier,
                        !.status = r.status, !.error = r.error, !.state = state,
                        !.ids = ids,
                        !.writes = StateChangeWrites(REFRESH_KV, state, identifier, ids, outcome),
                        !.placed = StateChangePlaced(REFRESH_KV, state, identifier, ids, outcome)]
  /\ requests' = requests + 1
  /\ UNCHANGED inflight

GetWorkOf(max) ==
  /\ requests < max
  /\ \E id \in StoredIds \cup {NoopId, UndefinedId} :
       \E r \in {getWork(REFRESH_KV, id)} :
          last' = [NoRequest EXCEPT !.op = "getWork", !.status = r.status,
                     !.presented = id, !.work = r.work]
  /\ requests' = requests + 1
  /\ UNCHANGED <<REFRESH_KV, inflight>>

\* The query strings of GET /works: ?artistId=, ?week= or neither, each
\* with or without isUnapproved (year is left to default to ACTIVE_YEAR).
Queries(artistIds) ==
  {[artistId |-> a, week |-> 0, isUnapproved |-> u] : a \in artistIds, u \in BOOLEAN}
  \cup {[artistId |-> Undefined, week |-> w, isUnapproved |-> u] :
          w \in {0} \cup Weeks, u \in BOOLEAN}

Answer(kv, identifier, query) ==
  getWorks(kv, identifier, ACTIVE_YEAR, query.week, query.artistId, query.isUnapproved)

GetWorksOf(callers, artistIds, max) ==
  /\ requests < max
  /\ \E identifier \in callers, query \in Queries(artistIds) :
       last' = [NoRequest EXCEPT !.op = "getWorks", !.caller = identifier,
                  !.status = "OK", !.artistId = query.artistId, !.week = query.week,
                  !.unapproved = query.isUnapproved,
                  !.result = Answer(REFRESH_KV, identifier, query)]
  /\ requests' = requests + 1
  /\ UNCHANGED <<REFRESH_KV, inflight>>

(***************************************************************************)
(* Spec: every caller, every artistId, forged payloads, the announcement   *)
(* service failing or not.                                                 *)
(***************************************************************************)
PutWork ==
  PutWorkOf(Callers, ArtistIds, RawItemLists, BOOLEAN, Timestamps, PostResults, MaxRequests)
PostApprove == StateChangeOf("APPROVE", {NoIdentity, "e1", "a1"}, MaxBatch, {"nothing"}, MaxRequests)
DeleteWork == StateChangeOf("DELETE", {NoIdentity, "e1", "a1"}, MaxBatch, {"nothing"}, MaxRequests)
GetWork == GetWorkOf(MaxRequests)
GetWorks == GetWorksOf({NoIdentity, "e1", "a1"}, ArtistIds, MaxRequests)

Next == PutWork \/ PostApprove \/ DeleteWork \/ GetWork \/ GetWorks

Spec == Init /\ [][Next]_vars

(***************************************************************************)
(* SpecModeration: the life of the works of two artists under one editor:  *)
(* honest payloads, longer runs.                                           *)
(***************************************************************************)
Moderators == {"e1", "a1", "a2"}
PutWorkM ==
  PutWorkOf(Moderators, Artists, RawItemLists, {FALSE}, Timestamps, {Undefined},
            MaxModeration)
PostApproveM == StateChangeOf("APPROVE", {"e1", "a1"}, MaxModerationBatch, {"nothing"}, MaxModeration)
DeleteWorkM == StateChangeOf("DELETE", {"e1", "a1"}, MaxModerationBatch, {"nothing"}, MaxModeration)
GetWorkM == GetWorkOf(MaxModeration)
GetWorksM == GetWorksOf({"e1", "a1"}, Artists, MaxModeration)

NextModeration == PutWorkM \/ PostApproveM \/ DeleteWorkM \/ GetWorkM \/ GetWorksM

SpecModeration == Init /\ [][NextModeration]_vars

(***************************************************************************)
(* SpecProvenance: one editor and one artist, payloads that carry either   *)
(* of two timestamps and may forge the privileged fields.                  *)
(***************************************************************************)
MaxProvenance == 3
LaterTimestamps == {1, 2}
PutWorkP ==
  PutWorkOf({"e1", "a1"}, {"a1"}, RawItemLists, BOOLEAN, LaterTimestamps,
            PostResults, MaxProvenance)
PostApproveP == StateChangeOf("APPROVE", {"e1"}, MaxBatch, {"nothing"}, MaxProvenance)
DeleteWorkP == StateChangeOf("DELETE", {"e1"}, MaxBatch, {"nothing"}, MaxProvenance)

NextProvenance == PutWorkP \/ PostApproveP \/ DeleteWorkP

SpecProvenance == Init /\ [][NextProvenance]_vars

(***************************************************************************)
(* SpecBatch: two artists submit, one editor moderates in batches of up to *)
(* MaxBatchLength ids, repeated and unknown ids included.                  *)
(***************************************************************************)
MaxBatchRequests == 3
MaxBatchLength == 3
PutWorkB ==
  PutWorkOf({"a1", "a2"}, Artists, RawItemLists, {FALSE}, Timestamps,
            {Undefined}, MaxBatchRequests)
PostApproveB == StateChangeOf("APPROVE", {"e1"}, MaxBatchLength, {"nothing"}, MaxBatchRequests)
DeleteWorkB == StateChangeOf("DELETE", {"e1"}, MaxBatchLength, {"nothing"}, MaxBatchRequests)

NextBatch == PutWorkB \/ PostApproveB \/ DeleteWorkB

SpecBatch == Init /\ [][NextBatch]_vars

(***************************************************************************)
(* Properties.                                                             *)
(***************************************************************************)
ById == REFRESH_KV.WORKS_WITH_ID_INDEX
ByArtist == REFRESH_KV.WORKS_WITH_ARTIST_INDEX
ByWeek == REFRESH_KV.WORKS_WITH_WEEK_INDEX
List == REFRESH_KV.WORKS_WITHOUT_INDEX

PutOk == last.op = "putWork" /\ last.status = "OK"
BatchOk(state) == last.op = "stateChange" /\ last.state = state /\ last.status = "OK"
BatchIdSet == {last.ids[i] : i \in DOMAIN last.ids}

\* Some answer of getWorks to one of `callers` holds a copy of work `id`.
Listed(id, callers) ==
  \E c \in callers, q \in Queries(ArtistIds) : id \in DOMAIN Answer(REFRESH_KV, c, q)

InList(work) ==
  /\ \E i \in DOMAIN List : List[i] = work
  /\ \A i \in DOMAIN List : List[i].id = work.id => List[i] = work

\* C1: after an approve batch that completed, every processed work that is
\* not soft-deleted is stored approved under its id in the by-ID index, in
\* the by-artist map of its artist, in the by-week map of each of its
\* weeks, and in the unfiltered list.
C1_ApprovedEverywhere ==
  BatchOk("APPROVE") =>
    \A id \in BatchIdSet :
      /\ id \in DOMAIN ById
      /\ LET W == ById[id]
         IN ~W.isSoftDeleted =>
              /\ W.isApproved /\ W.id = id
              /\ Get(Get(ByArtist, W.artistId, EmptyMap), id, EmptyWork) = W
              /\ \A w \in W.weekNumbers :
                   Get(Get(ByWeek, <<W.year, w>>, EmptyMap), id, EmptyWork) = W
              /\ InList(W)

C1_Witness ==
  /\ BatchOk("APPROVE")
  /\ Cardinality(BatchIdSet) = 2
  /\ \E id \in BatchIdSet : ById[id].weekNumbers = {1, 2} /\ ~ById[id].isSoftDeleted

\* C2 (as claimed): after a DELETE batch that completed, getWork answers
\* NotFound for every processed id and no getWorks answer, to any caller
\* under any filter, holds the work.
C2_DeletedExcluded ==
  BatchOk("DELETE") =>
    \A id \in BatchIdSet :
      /\ getWork(REFRESH_KV, id).status = "NotFound"
      /\ ~Listed(id, Callers)

\* C3: after a successful putWork, whoever called and whatever the payload
\* claimed, the record persisted under its id and answered is not approved
\* and not soft-deleted.
C3_PrivilegeReset ==
  PutOk =>
    /\ ~last.work.isApproved /\ ~last.work.isSoftDeleted
    /\ Get(ById, last.work.id, EmptyWork) = last.work

C3_Witness == PutOk /\ last.forged /\ HasId(last.prev) /\ isStaffOf(last.caller)

\* C4 (as claimed): after a successful putWork by a non-staff caller the
\* persisted discordId is undefined.
C4_DiscordIdUndefined ==
  (PutOk /\ ~isStaffOf(last.caller)) => ById[last.work.id].discordId = Undefined

\* C4 (amended): after a successful putWork by a non-staff caller the
\* persisted discordId is never the payload's: it is the id the
\* announcement service returned or, when it returned none, the discordId
\* of the stored record (undefined on creation).
C4_DiscordIdNotFromPayload ==
  (PutOk /\ ~isStaffOf(last.caller)) =>
    /\ ById[last.work.id].discordId =
         IF last.posted # Undefined THEN last.posted ELSE last.prev.discordId
    /\ ById[last.work.id].discordId # ForgedDiscordId

C4_Witness ==
  /\ PutOk /\ ~isStaffOf(last.caller) /\ last.forged
  /\ last.posted = Undefined /\ last.prev.discordId # Undefined

\* C5 (as claimed): once the owning artist has edited an approved work, no
\* getWorks answer to a non-staff caller holds a copy of it.
C5_EditedHidden ==
  (PutOk /\ last.prev.isApproved /\ last.caller = last.prev.artistId
     /\ ~isStaffOf(last.caller)) =>
    ~Listed(last.work.id, Callers \ EDITORS)

C6_StaffEdit == PutOk /\ isStaffOf(last.caller) /\ HasId(last.prev)

\* C6 (as claimed): when a staff caller's putWork overwrites an existing
\* record, the persisted artistId is the artistId the record had before,
\* whichever artistId the staff caller submitted.
C6_StaffKeepsArtist ==
  C6_StaffEdit => ById[last.work.id].artistId = last.prev.artistId

\* C6 (amended): when a staff caller's putWork overwrites an existing
\* record, the persisted artistId is the artistId the record had before if
\* the submitted artistId is an editor's id (the caller's or another
\* editor's), and the submitted artistId otherwise.
C6_StaffKeepsArtistUnlessArtistSubmitted ==
  C6_StaffEdit =>
    ById[last.work.id].artistId =
      IF last.artistId \in EDITORS THEN last.prev.artistId ELSE last.artistId

C6_Witness ==
  /\ C6_StaffEdit
  /\ last.artistId \in EDITORS \ {last.caller}
  /\ last.prev.artistId \notin EDITORS

\* C7 (as claimed): a successful putWork by a non-staff caller that
\* overwrites an existing record overwrites a record whose persisted
\* artistId is the caller's identity.
C7_OnlyOwnerOverwrites ==
  (PutOk /\ ~isStaffOf(last.caller) /\ HasId(last.prev)) =>
    last.prev.artistId = last.caller

\* C8: a putWork that reaches the ownership check (identified caller, valid
\* payload) is rejected by it exactly when the caller is not staff and the
\* submitted artistId differs from the caller's identity, and a rejection
\* leaves the store as it was.
C8_OwnershipCheck ==
  [][(last'.op = "putWork" /\ last'.error \notin {"NoIdentity", "Schema"}) =>
       /\ (last'.error = "Ownership") <=>
            (~isStaffOf(last'.caller) /\ last'.artistId # last'.caller)
       /\ (last'.error = "Ownership") =>
            (last'.status = "BadRequest" /\ REFRESH_KV' = REFRESH_KV)]_vars

C8_Witness ==
  /\ last.op = "putWork" /\ last.error = "Ownership"
  /\ last.caller \in Artists /\ ById # EmptyMap

\* C9: a putWork without a caller identity is answered Forbidden and leaves
\* every index as it was, whether the payload is valid or not.
C9_NoIdentityForbidden ==
  [][(last'.op = "putWork" /\ last'.caller = NoIdentity) =>
       (last'.status = "Forbidden" /\ REFRESH_KV' = REFRESH_KV)]_vars

C9_Witness ==
  /\ last.op = "putWork" /\ last.caller = NoIdentity /\ last.status = "Forbidden"
  /\ last.presented = NoopId /\ ById # EmptyMap

\* C10: a putWork that is answered with a failure leaves the by-ID,
\* by-artist, by-week and list indices exactly as they were.
C10_FailureWritesNothing ==
  [][(last'.op = "putWork" /\ last'.status # "OK") =>
       REFRESH_KV' = REFRESH_KV]_vars

C10_Witness ==
  /\ last.op = "putWork" /\ last.error = "Duplicate" /\ ById # EmptyMap

\* C11: a successful creation stores its record under the id allocated from
\* (artistId, items), an id that had no by-ID entry before, and adds that
\* one key to the by-ID index; so a second creation with the same
\* (artistId, items) cannot succeed beside the first and the index never
\* holds two works for one pair.
C11_OneWorkPerPair ==
  [][(last'.op = "putWork" /\ last'.status = "OK" /\ ~HasId(last'.prev)) =>
       LET newId == determineShortId(last'.artistId, last'.work.items)
       IN /\ last'.work.id = newId
          /\ newId \notin DOMAIN ById
          /\ DOMAIN ById' = DOMAIN ById \cup {newId}]_vars

C11_Witness ==
  /\ last.op = "putWork" /\ last.error = "Duplicate"
  /\ \E id \in DOMAIN ById : id = determineShortId(last.artistId, ById[id].items)

\* The id line 518 allocates for the request `last` describes.
AllocatedId(request) == <<request.artistId, request.urls>>

\* The request reached the create branch: identified caller, valid payload,
\* ownership passed, no record under the presented id.
ReachedCreate(request, kv) ==
  /\ request.op = "putWork"
  /\ request.error \notin {"NoIdentity", "Schema", "Ownership"}
  /\ request.presented \notin DOMAIN kv.WORKS_WITH_ID_INDEX

\* C12: a putWork on the create path whose allocated id already has a by-ID
\* entry is answered BadRequest, and the store (the existing record in
\* every index included) stays as it was.
C12_CollisionRejected ==
  [][(ReachedCreate(last', REFRESH_KV) /\ AllocatedId(last') \in DOMAIN ById) =>
       /\ last'.status = "BadRequest" /\ last'.error = "Duplicate"
       /\ REFRESH_KV' = REFRESH_KV]_vars

C12_Witness ==
  /\ ReachedCreate(last, REFRESH_KV) /\ last.status = "BadRequest"
  /\ AllocatedId(last) \in DOMAIN ById /\ last.presented = NoopId

Collides(request, kv) ==
  ReachedCreate(request, kv) /\ AllocatedId(request) \in DOMAIN kv.WORKS_WITH_ID_INDEX

C14_ProvenanceKept ==
  [][/\ \A id \in DOMAIN ById :
          /\ id \in DOMAIN ById'
          /\ ById'[id].submittedTimestamp = ById[id].submittedTimestamp
     /\ (last'.op = "putWork" /\ last'.status = "OK" /\ HasId(last'.prev)) =>
          ById'[last'.work.id].discordId =
            IF last'.posted # Undefined THEN last'.posted
            ELSE ById[last'.work.id].discordId]_vars

C14_Witness ==
  /\ PutOk /\ HasId(last.prev) /\ last.forged
  /\ last.timestamp # last.prev.submittedTimestamp
  /\ last.prev.isApproved /\ last.prev.discordId # Undefined

\* C15: on every reachable store, a moderation batch of any of the three
\* kinds, over any ids, called without identity or by a caller who is not
\* staff, is answered Forbidden and returns the store as it was.
C15_ModerationNeedsStaff ==
  \A state \in PrivilegedStateChange, identifier \in Callers \ EDITORS,
     ids \in BatchIds(MaxBatch), outcome \in IdlessOutcomes :
    makePrivilegedStateChange(REFRESH_KV, state, identifier, ids, outcome) =
      Response("Forbidden", "NotStaff", REFRESH_KV, EmptyWork)

C15_Witness ==
  /\ last.op = "stateChange" /\ last.status = "Forbidden"
  /\ last.caller = "a1" /\ last.ids[1] \in DOMAIN ById

ListEntries(id) == {i \in DOMAIN List : List[i].id = id}

Repeats(ids) == \E i, j \in DOMAIN ids : i # j /\ ids[i] = ids[j]

Mutated(state, work) ==
  IF state = "DELETE" THEN work.isSoftDeleted ELSE work.isApproved

\* C16: after a completed batch whose id list repeats an id, every processed
\* id carries the batch's mutation under by-ID, has exactly one entry in the
\* unfiltered list, and that entry is the by-ID record.
C16_RepeatedIdOnce ==
  (last.op = "stateChange" /\ last.status = "OK" /\ Repeats(last.ids)) =>
    \A id \in BatchIdSet :
      /\ id \in DOMAIN ById /\ Mutated(last.state, ById[id])
      /\ Cardinality(ListEntries(id)) = 1
      /\ \A i \in ListEntries(id) : List[i] = ById[id]

C16_Witness ==
  /\ last.op = "stateChange" /\ last.status = "OK"
  /\ Len(last.ids) = 3 /\ last.ids[1] = last.ids[3] /\ last.ids[1] # last.ids[2]

ListWrites(writes) == {i \in DOMAIN writes : writes[i] = ListKey}

IdWrites(writes) == {i \in DOMAIN writes : Len(writes[i]) = 2 /\ writes[i][1] = "id"}

\* C17: a completed moderation batch over N ids writes the unfiltered list
\* key exactly once, as the last write of the call, after the N per-id
\* writes.
C17_ListWrittenOnceLast ==
  (last.op = "stateChange" /\ last.status = "OK") =>
    /\ ListWrites(last.writes) = {Len(last.writes)}
    /\ Cardinality(IdWrites(last.writes)) = Len(last.ids)
    /\ \A i \in IdWrites(last.writes) : i < Len(last.writes)

C17_Witness ==
  /\ last.op = "stateChange" /\ last.status = "OK" /\ last.state = "DELETE"
  /\ Len(last.ids) = 3 /\ Cardinality(BatchIdSet) = 2

OneFieldSet(state, work) ==
  IF state = "DELETE" THEN [work EXCEPT !.isSoftDeleted = TRUE]
  ELSE [work EXCEPT !.isApproved = (state = "APPROVE")]

\* C18: a completed moderation batch leaves under by-ID, for every processed
\* id, the record that was there with one field set (isApproved for
\* APPROVE, isSoftDeleted for DELETE) and every other field as it was, and
\* leaves the records of other ids alone; UN_APPROVE applied to any stored
\* record clears isApproved and nothing else.
C18_OneFieldChanges ==
  [][(last'.op = "stateChange" /\ last'.status = "OK") =>
       /\ DOMAIN ById' = DOMAIN ById
       /\ \A id \in DOMAIN ById :
            ById'[id] = IF \E i \in DOMAIN last'.ids : last'.ids[i] = id
                          THEN OneFieldSet(last'.state, ById[id])
                          ELSE ById[id]
       /\ \A id \in DOMAIN ById :
            Mutate("UN_APPROVE", ById[id]) = OneFieldSet("UN_APPROVE", ById[id])]_vars

C18_Witness ==
  /\ last.op = "stateChange" /\ last.status = "OK" /\ last.state = "DELETE"
  /\ \E id \in BatchIdSet : ById[id].isSoftDeleted /\ ById[id].weekNumbers = {1, 2}
  /\ \E id \in DOMAIN ById : id \notin BatchIdSet

NamesMissing(request) ==
  /\ request.op = "stateChange" /\ isStaffOf(request.caller)
  /\ \E i \in DOMAIN request.ids : request.ids[i] \notin DOMAIN ById

NoIdlessRecord ==
  /\ \A id \in DOMAIN ById : HasId(ById[id]) /\ ById[id].id = id
  /\ \A a \in DOMAIN ByArtist : \A id \in DOMAIN ByArtist[a] : HasId(ByArtist[a][id])
  /\ \A k \in DOMAIN ByWeek : \A id \in DOMAIN ByWeek[k] : HasId(ByWeek[k][id])
  /\ \A i \in DOMAIN List : HasId(List[i])

\* C19 (as claimed): a staff batch that names an id with no by-ID record
\* ends in a fault raised at that id: the handler goes on with no empty
\* work (none is handed to the index writer), and no index and no list
\* holds a record without an id.
C19_MissingIdFaults ==
  NamesMissing(last) =>
    /\ last.status = "Fault"
    /\ \A i \in DOMAIN last.placed : HasId(last.placed[i])
    /\ NoIdlessRecord

\* C20: getWork answers NotFound when no id is given, when the id has no
\* by-ID record and when the record is soft-deleted; in every other case it
\* answers with the record stored under the id, whose id is the one asked.
C20_GetWork ==
  last.op = "getWork" =>
    IF \/ last.presented = UndefinedId
       \/ last.presented \notin DOMAIN ById
       \/ ById[last.presented].isSoftDeleted
      THEN last.status = "NotFound" /\ last.work = EmptyWork
      ELSE /\ last.status = "OK"
           /\ last.work = ById[last.presented]
           /\ last.work.id = last.presented

C20_Witness ==
  /\ last.op = "getWork" /\ last.status = "NotFound"
  /\ last.presented \in DOMAIN ById /\ ById[last.presented].isSoftDeleted

\* C21: after a staff batch, completed or ended by a fault, every work its
\* loop wrote is, as written, the by-ID entry, the entry in the by-artist
\* map of its artist and the entry in the by-week map of each of its weeks;
\* no write of the loop is a write of the list key, and a batch that ends
\* in the loop leaves the list as it was.
C21_PerIdWriteSkipsList ==
  [][(last'.op = "stateChange" /\ isStaffOf(last'.caller)) =>
       /\ \A i \in DOMAIN last'.placed :
            LET W == last'.placed[i]
            IN HasId(W) =>
                 /\ Get(ById', W.id, EmptyWork) = W
                 /\ Get(Get(ByArtist', W.artistId, EmptyMap), W.id, EmptyWork) = W
                 /\ \A w \in W.weekNumbers :
                      Get(Get(ByWeek', <<W.year, w>>, EmptyMap), W.id, EmptyWork) = W
       /\ \A i \in ListWrites(last'.writes) : i = Len(last'.writes) /\ last'.status = "OK"
       /\ last'.status = "Fault" => List' = List]_vars

C21_Witness ==
  /\ last.op = "stateChange" /\ last.status = "Fault"
  /\ \E i \in DOMAIN last.placed, j \in DOMAIN List :
       /\ HasId(last.placed[i]) /\ List[j].id = last.placed[i].id
       /\ List[j] # last.placed[i]
       /\ ById[last.placed[i].id] = last.placed[i]

\* Works with different submission times, moderated in batches.
MaxOrderRequests == 3
MaxOrderBatch == 2

PutWorkO ==
  PutWorkOf({"e1"}, Artists, RawItemLists, {FALSE}, LaterTimestamps,
            {Undefined}, MaxOrderRequests)
PostApproveO == StateChangeOf("APPROVE", {"e1"}, MaxOrderBatch, {"nothing"}, MaxOrderRequests)
DeleteWorkO == StateChangeOf("DELETE", {"e1"}, MaxOrderBatch, {"nothing"}, MaxOrderRequests)

NextOrder == PutWorkO \/ PostApproveO \/ DeleteWorkO

SpecOrder == Init /\ [][NextOrder]_vars

\* Batches that name ids with no record, with either outcome of the index
\* writer on the record without id they hand it.
MaxIdlessRequests == 3
MaxIdlessBatch == 2

PutWorkI ==
  PutWorkOf({"a1", "e1"}, {"a1"}, RawItemLists, {FALSE}, Timestamps,
            {Undefined}, MaxIdlessRequests)
PostApproveI ==
  StateChangeOf("APPROVE", {"e1"}, MaxIdlessBatch, IdlessOutcomes, MaxIdlessRequests)
DeleteWorkI ==
  StateChangeOf("DELETE", {"e1"}, MaxIdlessBatch, IdlessOutcomes, MaxIdlessRequests)
GetWorkI == GetWorkOf(MaxIdlessRequests)

NextIdless == PutWorkI \/ PostApproveI \/ DeleteWorkI \/ GetWorkI

SpecIdless == Init /\ [][NextIdless]_vars

\* Requests whose index writes interleave.  putWork runs to line 620 in
\* one step (the handler's own reads are of the by-ID index); its placeWork
\* call is then one step per store operation: a put of the by-ID key, and
\* for the artist key, each week key and the list key a get and a put of
\* the value read with the work merged in.
MaxRaceRequests == 2

KeyValue(kv, key) ==
  CASE key[1] = "artist" -> Get(kv.WORKS_WITH_ARTIST_INDEX, key[2], EmptyMap)
    [] key[1] = "week" -> Get(kv.WORKS_WITH_WEEK_INDEX, <<key[2], key[3]>>, EmptyMap)
    [] key[1] = "list" -> kv.WORKS_WITHOUT_INDEX
    [] OTHER -> EmptyMap

PutKey(kv, key, value, work) ==
  CASE key[1] = "id" ->
         [kv EXCEPT !.WORKS_WITH_ID_INDEX = Put(@, key[2], work)]
    [] key[1] = "artist" ->
         [kv EXCEPT !.WORKS_WITH_ARTIST_INDEX = Put(@, key[2], Put(value, work.id, work))]
    [] key[1] = "week" ->
         [kv EXCEPT !.WORKS_WITH_WEEK_INDEX =
            Put(@, <<key[2], key[3]>>, Put(value, work.id, work))]
    [] OTHER ->
         [kv EXCEPT !.WORKS_WITHOUT_INDEX = ReplaceOrAppend(value, work)]

\* A placeWork call under way: the keys still to write, and the value read
\* of the first of them once it has been read.
Placing(work) ==
  [work |-> work, keys |-> placeWorkKeys(work, FALSE, FALSE, FALSE),
   read |-> FALSE, value |-> EmptyMap]

PutWorkR ==
  /\ requests < MaxRaceRequests
  /\ \E identifier \in Artists, id \in PresentedIds, weekNumbers \in WeekSets :
       \E items \in ItemChoices(RawItemLists, id) :
         LET payload == Payload(id, identifier, weekNumbers, items, FALSE, 1)
         IN \E r \in {putWork(REFRESH_KV, identifier, payload, Undefined, TRUE)} :
              /\ last' = [NoRequest EXCEPT !.op = "putWork", !.caller = identifier,
                            !.status = r.status, !.error = r.error, !.presented = id,
                            !.artistId = identifier, !.urls = Urls(items),
                            !.timestamp = 1,
                            !.prev = IF r.status = "OK"
                                       THEN BackendWork(REFRESH_KV, payload)
                                       ELSE EmptyWork,
                            !.work = r.work]
              /\ inflight' = IF r.status = "OK" THEN Append(inflight, Placing(r.work))
                             ELSE inflight
  /\ requests' = requests + 1
  /\ UNCHANGED REFRESH_KV

PlaceGet ==
  \E p \in DOMAIN inflight :
    LET call == inflight[p]
    IN /\ call.keys # <<>> /\ Head(call.keys)[1] # "id" /\ ~call.read
       /\ inflight' = [inflight EXCEPT ![p].read = TRUE,
                                       ![p].value = KeyValue(REFRESH_KV, Head(call.keys))]
       /\ UNCHANGED <<REFRESH_KV, last, requests>>

PlacePut ==
  \E p \in DOMAIN inflight :
    LET call == inflight[p]
    IN /\ call.keys # <<>> /\ (Head(call.keys)[1] = "id" \/ call.read)
       /\ REFRESH_KV' = PutKey(REFRESH_KV, Head(call.keys), call.value, call.work)
       /\ inflight' = [inflight EXCEPT ![p].keys = Tail(call.keys), ![p].read = FALSE,
                                       ![p].value = EmptyMap]
       /\ UNCHANGED <<last, requests>>

NextRace == PutWorkR \/ PlaceGet \/ PlacePut

SpecRace == Init /\ [][NextRace]_vars

\* Works of one or two items: images, audio and external links.
MaxThumbnailRequests == 2

MixedItemLists ==
  { <<UrlItem(CdnImage)>>, <<UrlItem(AudioFile)>>,
    <<UrlItem(AudioFile), UrlItem(CdnImage)>>,
    <<UrlItem(CdnImage), UrlItem(AudioFile)>>,
    <<UrlItem(ExternalLink), UrlItem(CdnImage)>>,
    <<UrlItem(AudioFile), UrlItem(ExternalLink)>> }

PutWorkT ==
  PutWorkOf({"a1", "e1"}, {"a1"}, MixedItemLists, {FALSE}, Timestamps,
            {Undefined}, MaxThumbnailRequests)
GetWorkT == GetWorkOf(MaxThumbnailRequests)

NextThumbnails == PutWorkT \/ GetWorkT

SpecThumbnails == Init /\ [][NextThumbnails]_vars

\* The works under the index a getWorks request selects.
SelectedSet(request) ==
  IF request.artistId # Undefined
    THEN Values(Get(ByArtist, request.artistId, EmptyMap))
  ELSE IF request.week # 0
    THEN Values(Get(ByWeek, <<ACTIVE_YEAR, request.week>>, EmptyMap))
  ELSE {List[i] : i \in DOMAIN List}

Visible(isStaff, isSeekingUnapproved, work) ==
  /\ ~work.isSoftDeleted
  /\ IF ~isStaff THEN work.isApproved
     ELSE IF isSeekingUnapproved THEN ~work.isApproved
     ELSE TRUE

\* C22: workRetrievalPredicate admits a stored work exactly when it is not
\* soft-deleted and: the caller is not staff and the work is approved
\* (whatever isUnapproved says), or the caller is staff and does not seek
\* unapproved work, or the caller is staff, seeks unapproved work and the
\* work is not approved.  The answer of getWorks is the set of the works of
\* the selected index that it admits, each under its id.
C22_RetrievalPredicate ==
  /\ \A isStaff, seeks \in BOOLEAN :
       \A W \in Values(ById) \cup {List[i] : i \in DOMAIN List} :
         workRetrievalPredicate(isStaff, seeks, W) = Visible(isStaff, seeks, W)
  /\ last.op = "getWorks" =>
       /\ Values(last.result) =
            {W \in SelectedSet(last) :
               Visible(isStaffOf(last.caller), last.unapproved, W)}
       /\ \A id \in DOMAIN last.result : last.result[id].id = id

C22_Witness ==
  /\ last.op = "getWorks" /\ isStaffOf(last.caller) /\ last.unapproved
  /\ last.result = EmptyMap
  /\ \E W \in SelectedSet(last) : W.isApproved /\ ~W.isSoftDeleted

ListIds(list) == {list[i].id : i \in DOMAIN list}

\* The copy of work `id` a batch holds when its loop ends: the last one it
\* handed to placeWork.
BatchCopy(placed, id) ==
  placed[CHOOSE k \in DOMAIN placed :
           /\ placed[k].id = id
           /\ \A m \in DOMAIN placed : placed[m].id = id => m <= k]

\* C23: the list a completed moderation batch writes holds the ids of the
\* list before the batch and the ids of the batch, each id once; the entry
\* of a processed id is the batch's copy, the entry of any other id is the
\* one the list held; entries are in descending order of submittedTimestamp.
C23_MergedList ==
  [][(last'.op = "stateChange" /\ last'.status = "OK") =>
       LET ids == {last'.ids[i] : i \in DOMAIN last'.ids}
       IN /\ ListIds(List') = ListIds(List) \cup ids
          /\ \A i, j \in DOMAIN List' : List'[i].id = List'[j].id => i = j
          /\ \A i \in DOMAIN List' :
               IF List'[i].id \in ids
                 THEN List'[i] = BatchCopy(last'.placed, List'[i].id)
                 ELSE \E j \in DOMAIN List : List[j] = List'[i]
          /\ \A i, j \in DOMAIN List' :
               i < j => List'[i].submittedTimestamp >= List'[j].submittedTimestamp]_vars

C23_Witness ==
  /\ BatchOk("APPROVE") /\ Len(List) = 2
  /\ List[1].submittedTimestamp > List[2].submittedTimestamp
  /\ List[1].id \notin BatchIdSet /\ ~List[1].isApproved
  /\ List[2].id \in BatchIdSet /\ List[2].isApproved

\* C24 (as claimed): between requests the aggregates hold no stale copy: an
\* id is under by-week (y, w) only if w is among the weekNumbers of its
\* by-ID record, under by-artist x only if x is the artistId of its by-ID
\* record, and each such copy is the by-ID record.
C24_NoStaleCopy ==
  /\ \A key \in DOMAIN ByWeek : \A id \in DOMAIN ByWeek[key] :
       /\ id \in DOMAIN ById
       /\ key[1] = ById[id].year /\ key[2] \in ById[id].weekNumbers
       /\ ByWeek[key][id] = ById[id]
  /\ \A x \in DOMAIN ByArtist : \A id \in DOMAIN ByArtist[x] :
       /\ id \in DOMAIN ById
       /\ x = ById[id].artistId
       /\ ByArtist[x][id] = ById[id]

\* The item whose thumbnails lines 591-610 are meant to take: the first, or
\* with several items the first whose hi-DPI thumbnail is no placeholder.
ThumbnailItem(items) ==
  LET real == {i \in DOMAIN items :
                 items[i].hiDpiThumbnail # NoUrl /\ ~IsPlaceholder(items[i].hiDpiThumbnail)}
  IN IF Len(items) > 1 /\ real # {}
       THEN CHOOSE i \in real : \A j \in real : i <= j
       ELSE 1

\* C25 (as claimed): a putWork that succeeds on a payload without
\* thumbnailUrl persists, as thumbnailUrl and smallThumbnailUrl, the hi-DPI
\* and the small thumbnail of one item: the first, or with several items
\* the first one that has a non-placeholder thumbnail.
C25_ThumbnailPair ==
  (PutOk /\ last.work.items # <<>>) =>
     LET W == ById[last.work.id]
         item == W.items[ThumbnailItem(W.items)]
     IN /\ W = last.work
        /\ W.thumbnailUrl = item.hiDpiThumbnail
        /\ W.smallThumbnailUrl = item.smallThumbnail

\* C26: a putWork that passes every check while the announcement service
\* returns no id answers OK with the work; that work is the by-ID record,
\* the copy under its artist, under each of its weeks and in the list; its
\* discordId is the stored record's, and undefined when there was none.
C26_AnnouncementMayFail ==
  (PutOk /\ last.posted = Undefined) =>
     LET W == last.work
     IN /\ HasId(W)
        /\ Get(ById, W.id, EmptyWork) = W
        /\ Get(Get(ByArtist, W.artistId, EmptyMap), W.id, EmptyWork) = W
        /\ \A w \in W.weekNumbers :
             Get(Get(ByWeek, <<W.year, w>>, EmptyMap), W.id, EmptyWork) = W
        /\ \E i \in DOMAIN List : List[i] = W
        /\ W.discordId = IF HasId(last.prev) THEN last.prev.discordId ELSE Undefined

C26_Witness ==
  /\ PutOk /\ last.posted = Undefined /\ HasId(last.prev)
  /\ last.prev.discordId \in DiscordIds
  /\ ById[last.work.id].discordId = last.prev.discordId

C28_IdIsKey ==
  \A k \in DOMAIN ById : HasId(ById[k]) /\ ById[k].id = k

\* C29 (as claimed): once the index writes of two putWork requests for two
\* different works have both completed, however their store reads and
\* writes interleaved, each of the two works is in the list and in the
\* by-week map of each of its weeks.
C29_NoLostUpdate ==
  \A p, q \in DOMAIN inflight :
    (/\ inflight[p].keys = <<>> /\ inflight[q].keys = <<>>
     /\ inflight[p].work.id # inflight[q].work.id) =>
       LET W == inflight[p].work
       IN /\ \E i \in DOMAIN List : List[i].id = W.id
          /\ \A w \in W.weekNumbers :
               W.id \in DOMAIN Get(ByWeek, <<W.year, w>>, EmptyMap)

\* C30: no step removes a by-ID key; a putWork that succeeds with the id of
\* a soft-deleted record has found that record, and the record it persists
\* under the same id is not soft-deleted and is what getWork then answers.
C30_DeletionReversible ==
  [][/\ DOMAIN ById \subseteq DOMAIN ById'
     /\ (/\ last'.op = "putWork" /\ last'.status = "OK"
         /\ last'.presented \in DOMAIN ById
         /\ ById[last'.presented].isSoftDeleted) =>
          LET id == last'.presented
          IN /\ last'.prev = ById[id]
             /\ last'.work.id = id
             /\ ById'[id] = last'.work
             /\ ~ById'[id].isSoftDeleted
             /\ getWork(REFRESH_KV', id) =
                  Response("OK", "None", REFRESH_KV', last'.work)]_vars

C30_Witness ==
  /\ PutOk /\ HasId(last.prev) /\ last.prev.isSoftDeleted
  /\ ~ById[last.work.id].isSoftDeleted
  /\ getWork(REFRESH_KV, last.work.id).status = "OK"

====
